---- MODULE Spec2Model ----
(***************************************************************************)
(* Model of include/unifex/unstoppable.hpp: the entry point `unstoppable`, *)
(* unstoppable_sender, unstoppable_operation and the inner forwarding      *)
(* receiver unstoppable_source_receiver, for one source, one outer         *)
(* receiver type and the operation states of successive connects, one at   *)
(* a time.                                                                 *)
(*                                                                         *)
(* The wrapped source and the outer receiver are external: the source may  *)
(* throw from connect, may relocate the inner receiver while connecting,   *)
(* completes once per start of its operation on one of three channels,     *)
(* synchronously inside start() or later from another context, and may     *)
(* query the inner receiver.  The outer receiver's set_value may throw,    *)
(* and its completion handlers may destroy the operation state.            *)
(***************************************************************************)
EXTENDS Integers, Sequences, FiniteSets, TLC

\* Bounds of the model.
MaxErr == 2
MaxRelocations == 2
MaxConnects == 2

Errors == 1..MaxErr
ValueCategories == {"lvalue", "const_lvalue", "rvalue"}

VARIABLES
  src,                     \* type traits of the source handed to `unstoppable`
  rcv,                     \* the outer receiver: value category at connect, throwing set_value, channels,
                           \* completion handlers that destroy the operation state
  path,                    \* overload of unstoppable_cpo::operator() that was selected
  sender_source_,          \* unstoppable_sender::source_
  callerReceiver,          \* the caller's own receiver object
  opPhase,                 \* lifetime of the unstoppable_operation
  source_,                 \* unstoppable_operation::source_
  receiver_,               \* unstoppable_operation::receiver_
  isSourceOpConstructed_,  \* unstoppable_operation::isSourceOpConstructed_
  sourceOp_,               \* unstoppable_operation::sourceOp_ (manual_lifetime slot)
  inner,                   \* op_ != nullptr of every unstoppable_source_receiver instance
  destructCalls,           \* calls of sourceOp_.destruct()
  startCalls,              \* calls of unstoppable_operation::start
  nestedStartCalls,        \* calls of unifex::start on the nested operation
  startPc,                 \* position of the caller in start()
  srcSignals,              \* completion calls the source made on the inner receiver, and from where
  outerLog,                \* completion calls the outer receiver received
  exc,                     \* exception that left the adaptor
  terminated,              \* std::terminate was called
  outerStop,               \* a stop was requested on the outer receiver's stop token
  sourceSawStop,           \* the source saw stop_requested() through a query
  scat,                    \* value category of the sender in the connect of this operation state
  pastOps,                 \* summaries of the operation states of earlier connects
  faults                   \* failed assertions and accesses to a destroyed operation state

vars == <<src, rcv, path, sender_source_, callerReceiver, opPhase, source_,
          receiver_, isSourceOpConstructed_, sourceOp_, inner, destructCalls,
          startCalls, nestedStartCalls, startPc, srcSignals, outerLog, exc,
          terminated, outerStop, sourceSawStop, scat, pastOps, faults>>

opVars == <<opPhase, source_, receiver_, isSourceOpConstructed_, sourceOp_>>
envVars == <<src, rcv>>

Sources == [customizes : BOOLEAN, constructible : BOOLEAN]
Receivers ==
  [cat : ValueCategories, throws : BOOLEAN, hasDone : BOOLEAN, hasError : BOOLEAN,
   destroysOp : BOOLEAN]

ValueSignal == [ch |-> "value", val |-> <<>>]
DoneSignal == [ch |-> "done", val |-> <<>>]
ErrorSignal(e) == [ch |-> "error", val |-> <<e>>]

Init ==
  /\ src \in Sources
  /\ rcv \in Receivers
  /\ path = "none"
  /\ sender_source_ = "none"
  /\ callerReceiver = "intact"
  /\ opPhase = "none"
  /\ source_ = "none"
  /\ receiver_ = "none"
  /\ isSourceOpConstructed_ = FALSE
  /\ sourceOp_ = "none"
  /\ inner = <<>>
  /\ destructCalls = 0
  /\ startCalls = 0
  /\ nestedStartCalls = 0
  /\ startPc = "idle"
  /\ srcSignals = <<>>
  /\ outerLog = <<>>
  /\ exc = "none"
  /\ terminated = FALSE
  /\ outerStop = FALSE
  /\ sourceSawStop = FALSE
  /\ scat = "none"
  /\ pastOps = <<>>
  /\ faults = {}

----------------------------------------------------------------------------
\* unstoppable_cpo::operator(): the two overloads and their constraints.

\* First overload: viable iff tag_invoke_result_t<unstoppable_cpo, Source> exists.
overload_tag_invoke(s) == s.customizes

overload_wrap_unconstrained(s) == s.constructible

\* Second overload: enable_if !is_tag_invocable_v && is_constructible_v.
overload_wrap(s) == ~s.customizes /\ s.constructible

viable_overloads(s) ==
  {o \in {"tag_invoke", "wrap"} :
     \/ o = "tag_invoke" /\ overload_tag_invoke(s)
     \/ o = "wrap" /\ overload_wrap(s)}

\* Overload resolution: the single viable overload, else the call is rejected.
cpo_select(s) ==
  IF viable_overloads(s) = {} THEN "ill_formed"
  ELSE IF Cardinality(viable_overloads(s)) = 1
       THEN CHOOSE o \in viable_overloads(s) : TRUE
       ELSE "ambiguous"

\* unstoppable(source): either the source's own customization result, or an
\* unstoppable_sender holding the source.
unstoppable_call ==
  /\ path = "none"
  /\ path' = cpo_select(src)
  /\ sender_source_' = IF cpo_select(src) = "wrap" THEN "held" ELSE "none"
  /\ UNCHANGED <<scat, pastOps, faults, envVars, callerReceiver, opVars, inner, destructCalls,
                 startCalls, nestedStartCalls, startPc, srcSignals, outerLog,
                 exc, terminated, outerStop, sourceSawStop>>

----------------------------------------------------------------------------
\* unstoppable_sender::connect and the constructor of unstoppable_operation.

sender_after_connect_moves(c) == "moved_from"

\* connect && moves source_ out of the sender, connect const& copies it.
sender_after_connect(c) == IF c = "rvalue" THEN "moved_from" ELSE "held"

\* receiver_((Receiver&&)receiver): the cast names the class's Receiver, not
\* the constructor's Receiver2, so the argument is always cast to an rvalue
\* and receiver_ is move-constructed from it.  For a const lvalue the cast
\* also removes const; moving from an object that is really const is
\* undefined, so either outcome is possible there.
ctor_receiver_(cat) ==
  IF cat = "const_lvalue" THEN {"moved_from", "intact"} ELSE {"moved_from"}

\* bool isSourceOpConstructed_ = true: the default member initializer.
flag_initial == TRUE

\* What is remembered of an operation state once the sender is connected again.
op_summary ==
  [scat |-> scat, started |-> nestedStartCalls, completions |-> Len(srcSignals),
   delivered |-> Len(outerLog)]

\* unstoppable_sender::connect (&& or const&) with a fresh receiver of the
\* caller: member initialisation, then the constructor body up to the
\* creation of source_receiver{this}; the nested connect is the source's
\* code.  A sender can be connected again while it still holds its source
\* and the operation state of the connect before is gone.
connect_begin ==
  /\ path = "wrap"
  /\ opPhase \in {"none", "destroyed", "unwound"}
  /\ startPc # "running"
  /\ ~terminated
  /\ sender_source_ = "held"
  /\ Len(pastOps) + (IF opPhase = "none" THEN 0 ELSE 1) < MaxConnects
  /\ pastOps' = IF opPhase = "none" THEN pastOps ELSE Append(pastOps, op_summary)
  /\ \E c \in {"rvalue", "const_lvalue"} :
       /\ scat' = c
       /\ sender_source_' = sender_after_connect(c)
  /\ source_' = "held"
  /\ receiver_' = "held"
  /\ callerReceiver' \in ctor_receiver_(rcv.cat)
  /\ isSourceOpConstructed_' = flag_initial
  /\ sourceOp_' = "empty"
  /\ inner' = <<TRUE>>
  /\ opPhase' = "members"
  /\ destructCalls' = 0
  /\ startCalls' = 0
  /\ nestedStartCalls' = 0
  /\ startPc' = "idle"
  /\ srcSignals' = <<>>
  /\ outerLog' = <<>>
  /\ exc' = "none"
  /\ UNCHANGED <<faults, envVars, path, terminated, outerStop, sourceSawStop>>

relocate_copy(instances) == Append(instances, instances[Len(instances)])

relocate_lost(instances) ==
  Append([instances EXCEPT ![Len(instances)] = FALSE], FALSE)

\* unstoppable_source_receiver(unstoppable_source_receiver&& other):
\* op_(std::exchange(other.op_, {})).
relocate_from(instances) ==
  Append([instances EXCEPT ![Len(instances)] = FALSE], instances[Len(instances)])

\* The source relocates the inner receiver, while it connects or later, before
\* it completes.
relocate ==
  /\ opPhase \in {"members", "live"}
  /\ srcSignals = <<>>
  /\ ~terminated
  /\ Len(inner) <= MaxRelocations
  /\ inner' = relocate_from(inner)
  /\ UNCHANGED <<scat, pastOps, faults, envVars, path, sender_source_, callerReceiver, opVars,
                 destructCalls, startCalls, nestedStartCalls, startPc,
                 srcSignals, outerLog, exc, terminated, outerStop,
                 sourceSawStop>>

\* sourceOp_.construct_from(...) returned: the slot holds the nested
\* operation and connect returns the operation state to the caller.
connect_ok ==
  /\ opPhase = "members"
  /\ sourceOp_' = "live"
  /\ opPhase' = "live"
  /\ UNCHANGED <<scat, pastOps, faults, envVars, path, sender_source_, callerReceiver, source_,
                 receiver_, isSourceOpConstructed_, inner, destructCalls,
                 startCalls, nestedStartCalls, startPc, srcSignals, outerLog,
                 exc, terminated, outerStop, sourceSawStop>>

unwind_runs_destructor(flag) == IF flag THEN 1 ELSE 0

\* Calls of sourceOp_.destruct() while a throwing constructor unwinds: the
\* constructor did not complete, so ~unstoppable_operation does not run and
\* manual_lifetime's own destructor destroys nothing.
unwind_destructs(flag) == 0

\* unifex::connect(source_, source_receiver{this}) throws: the exception
\* leaves the constructor and connect; only receiver_ and source_ are destroyed.
connect_throw ==
  /\ opPhase = "members"
  /\ exc' = "connect"
  /\ destructCalls' = destructCalls + unwind_destructs(isSourceOpConstructed_)
  /\ sourceOp_' = IF unwind_destructs(isSourceOpConstructed_) > 0
                  THEN "destructed" ELSE sourceOp_
  /\ source_' = "destroyed"
  /\ receiver_' = "destroyed"
  /\ opPhase' = "unwound"
  /\ UNCHANGED <<scat, pastOps, faults, envVars, path, sender_source_, callerReceiver,
                 isSourceOpConstructed_, inner, startCalls, nestedStartCalls,
                 startPc, srcSignals, outerLog, terminated, outerStop,
                 sourceSawStop>>

----------------------------------------------------------------------------
\* unstoppable_operation::start and the relays of unstoppable_source_receiver.

start_nested_twice(n) == n + 2

start_nested_none(n) == n

\* start(): unifex::start(sourceOp_.get()), once.
start_nested(n) == n + 1

\* The caller enters start(); the nested operation is started.
start ==
  /\ opPhase = "live"
  /\ startPc = "idle"
  /\ ~terminated
  /\ startCalls' = startCalls + 1
  /\ nestedStartCalls' = start_nested(nestedStartCalls)
  /\ startPc' = "running"
  /\ UNCHANGED <<scat, pastOps, faults, envVars, path, sender_source_, callerReceiver, opVars, inner,
                 destructCalls, srcSignals, outerLog, exc, terminated,
                 outerStop, sourceSawStop>>

\* Members of the operation state start() touches after unifex::start
\* returned: none, the call is its last statement.
start_post_access == {}

\* start() returns to the caller; the source may or may not have completed,
\* and the outer receiver may have destroyed the operation state.
start_return ==
  /\ startPc = "running"
  /\ ~terminated
  /\ startPc' = "returned"
  /\ faults' = faults \cup
       (IF opPhase # "live" /\ start_post_access # {} THEN {"dead_after_relay"} ELSE {})
  /\ UNCHANGED <<scat, pastOps, envVars, path, sender_source_, callerReceiver,
                 opVars, inner, destructCalls, startCalls, nestedStartCalls,
                 srcSignals, outerLog, exc, terminated, outerStop, sourceSawStop>>

\* The source owes one completion per start of its operation, delivers it
\* while that operation exists, on the instance of the inner receiver it
\* holds (the relocated-to one), inside start() or after it returned.
SourceMayComplete ==
  /\ sourceOp_ = "live"
  /\ ~terminated
  /\ exc = "none"
  /\ Len(srcSignals) < nestedStartCalls
  /\ inner # <<>>

\* assert(op_ != nullptr) on the instance the source holds.
BackRefValid == inner # <<>> /\ inner[Len(inner)]

has_set_done_ungated(r) == TRUE

\* set_done exists iff is_invocable_v<decltype(unifex::set_done), Receiver>.
has_set_done(r) == r.hasDone

\* set_error(Error) exists iff is_invocable_v<decltype(unifex::set_error),
\* Receiver, Error>.
has_set_error(r) == r.hasError

relay_value_dropped == <<>>

\* set_value(): unifex::set_value(std::move(op_->receiver_)).
relay_value == <<ValueSignal>>

relay_done_forwarded == <<DoneSignal>>

relay_done_dropped == <<>>

\* set_done(): unifex::set_value(std::move(op_->receiver_)).
relay_done == <<ValueSignal>>

relay_error_as_value(e) == <<ValueSignal>>

\* set_error(e): unifex::set_error(std::move(op_->receiver_), (Error&&)error).
relay_error(e) == <<ErrorSignal(e)>>

relay_post_access_flag == {"isSourceOpConstructed_"}

\* Members of the operation state a relay touches after the call of the outer
\* receiver returned: none, the call is the last statement of each relay.
relay_post_access == {}

dtor_destructs_never(flag) == 0

\* ~unstoppable_operation(): if (isSourceOpConstructed_) sourceOp_.destruct().
dtor_destructs(flag) == IF flag THEN 1 ELSE 0

\* ~unstoppable_operation(), then the members are destroyed.
RunDestructor ==
  /\ destructCalls' = destructCalls + dtor_destructs(isSourceOpConstructed_)
  /\ sourceOp_' = IF dtor_destructs(isSourceOpConstructed_) > 0
                  THEN "destructed" ELSE sourceOp_
  /\ isSourceOpConstructed_' =
       IF isSourceOpConstructed_ THEN FALSE ELSE isSourceOpConstructed_
  /\ source_' = "destroyed"
  /\ receiver_' = "destroyed"
  /\ opPhase' = "destroyed"

\* A relay: the back-reference is asserted and read, the outer receiver is
\* called with op_->receiver_ cast to an rvalue, and the relay returns.  The
\* outer receiver's handler may destroy the operation state before it returns.
Relay(sig, delivered) ==
  /\ srcSignals' = Append(srcSignals, [sig |-> sig, ctx |-> startPc])
  /\ outerLog' = outerLog \o delivered
  /\ faults' = faults
       \cup (IF BackRefValid THEN {} ELSE {"null_backref"})
       \cup (IF opPhase = "live" THEN {} ELSE {"dead_on_entry"})
       \cup (IF rcv.destroysOp /\ delivered # <<>> /\ relay_post_access # {}
             THEN {"dead_after_relay"} ELSE {})
  /\ IF rcv.destroysOp /\ delivered # <<>> /\ opPhase = "live"
     THEN RunDestructor
     ELSE /\ receiver_' = "moved_from"
          /\ UNCHANGED <<opPhase, source_, isSourceOpConstructed_, sourceOp_,
                         destructCalls>>
  /\ UNCHANGED <<scat, pastOps, envVars, path, sender_source_, callerReceiver,
                 inner, startCalls, nestedStartCalls, startPc, outerStop,
                 sourceSawStop>>

\* set_value() is not noexcept: an exception of the outer receiver's
\* set_value propagates to the source.
set_value ==
  /\ SourceMayComplete
  /\ Relay(ValueSignal, relay_value)
  /\ exc' = IF rcv.throws /\ ValueSignal \in {relay_value[i] : i \in DOMAIN relay_value}
            THEN "set_value" ELSE exc
  /\ UNCHANGED terminated

\* set_done() is noexcept and calls the outer receiver's set_value: an
\* exception of that call cannot leave set_done, std::terminate is called.
set_done ==
  /\ SourceMayComplete
  /\ has_set_done(rcv)
  /\ Relay(DoneSignal, relay_done)
  /\ terminated' = (rcv.throws /\ ValueSignal \in {relay_done[i] : i \in DOMAIN relay_done})
  /\ UNCHANGED exc

\* set_error(e): the outer receiver's set_error is noexcept.
set_error ==
  /\ SourceMayComplete
  /\ has_set_error(rcv)
  /\ \E e \in Errors : Relay(ErrorSignal(e), relay_error(e))
  /\ UNCHANGED <<exc, terminated>>

----------------------------------------------------------------------------
\* Queries on the inner receiver, and the destructor.

\* tag_invoke(cpo, const unstoppable_source_receiver& r, args...):
\* cpo(r.get_receiver(), args...), the outer receiver's own answer.
tag_invoke_query(outerAnswer) == outerAnswer

\* The source asks the inner receiver for its stop token (get_stop_token is a
\* CPO the generic tag_invoke overload accepts) and reads stop_requested(),
\* while it connects or while its operation exists and has not completed.
\* get_receiver() asserts and reads the back-reference.
query_stop_token ==
  /\ opPhase = "members" \/ sourceOp_ = "live"
  /\ ~terminated
  /\ srcSignals = <<>>
  /\ inner # <<>>
  /\ sourceSawStop' = (sourceSawStop \/ tag_invoke_query(outerStop))
  /\ faults' = faults
       \cup (IF BackRefValid THEN {} ELSE {"null_backref"})
       \cup (IF opPhase \in {"members", "live"} THEN {} ELSE {"dead_on_entry"})
  /\ UNCHANGED <<scat, pastOps, envVars, path, sender_source_, callerReceiver,
                 opVars, inner, destructCalls, startCalls, nestedStartCalls,
                 startPc, srcSignals, outerLog, exc, terminated, outerStop>>

\* The owner of the outer receiver's stop source requests stop.
request_stop ==
  /\ path = "wrap"
  /\ ~outerStop
  /\ ~terminated
  /\ srcSignals = <<>>
  /\ outerStop' = TRUE
  /\ UNCHANGED <<scat, pastOps, faults, envVars, path, sender_source_, callerReceiver, opVars, inner,
                 destructCalls, startCalls, nestedStartCalls, startPc,
                 srcSignals, outerLog, exc, terminated, sourceSawStop>>

\* The caller destroys the operation state, before starting it or after the
\* completion returned.
destroy ==
  /\ opPhase = "live"
  /\ ~terminated
  /\ \/ startPc = "idle"
     \/ startPc = "returned" /\ Len(srcSignals) >= nestedStartCalls
  /\ RunDestructor
  /\ UNCHANGED <<scat, pastOps, faults, envVars, path, sender_source_,
                 callerReceiver, inner, startCalls, nestedStartCalls, startPc,
                 srcSignals, outerLog, exc, terminated, outerStop,
                 sourceSawStop>>

----------------------------------------------------------------------------
Next ==
  \/ unstoppable_call
  \/ connect_begin
  \/ relocate
  \/ connect_ok
  \/ connect_throw
  \/ start
  \/ start_return
  \/ set_value
  \/ set_done
  \/ set_error
  \/ query_stop_token
  \/ request_stop
  \/ destroy

Spec == Init /\ [][Next]_vars

\* The source's execution context runs: a completion the source owes is
\* eventually delivered on one of the three channels.
FairSpec == Spec /\ WF_vars(set_value \/ set_done \/ set_error)

----------------------------------------------------------------------------
\* Properties.

Count(log, ch) == Len(SelectSeq(log, LAMBDA s : s.ch = ch))

SourceSignalled(ch) == \E i \in DOMAIN srcSignals : srcSignals[i].sig.ch = ch

\* C1: when the source completes with cancellation the outer receiver has
\* received exactly one success signal without values, and the outer
\* receiver never receives a cancellation signal.
C1_CancellationMasked ==
  /\ Count(outerLog, "done") = 0
  /\ SourceSignalled("done") => outerLog = <<ValueSignal>>

C1_Witness ==
  /\ SourceSignalled("done")
  /\ outerLog = <<ValueSignal>>
  /\ startPc = "returned"

\* C2: the outer receiver never has more than one success-or-error signal,
\* and has exactly one once the source has completed, whether the source
\* completed inside start() or after start() returned.
C2_ExactlyOnce ==
  /\ Count(outerLog, "value") + Count(outerLog, "error") <= 1
  /\ srcSignals # <<>> => Count(outerLog, "value") + Count(outerLog, "error") = 1

C2_Witness ==
  /\ srcSignals # <<>>
  /\ srcSignals[1].ctx = "returned"
  /\ Len(outerLog) = 1

\* C3: an error E of the source reaches the outer receiver as exactly one
\* error signal carrying E and nothing else, and every error signal the outer
\* receiver gets is an error of the source.
C3_ErrorPassThrough ==
  /\ \A i \in DOMAIN srcSignals :
       srcSignals[i].sig.ch = "error" => outerLog = <<srcSignals[i].sig>>
  /\ Count(outerLog, "error") > 0 => SourceSignalled("error")

C3_Witness ==
  /\ SourceSignalled("error")
  /\ outerLog = <<ErrorSignal(MaxErr)>>

\* C4: a success of the source reaches the outer receiver as exactly one
\* success signal without values, and no error signal.
C4_SuccessPassThrough ==
  SourceSignalled("value") => outerLog = <<ValueSignal>>

C4_Witness ==
  /\ SourceSignalled("value")
  /\ outerLog = <<ValueSignal>>
  /\ ~rcv.throws

\* C5: when the nested connect throws, the exception leaves connect, start is
\* never called on the outer or the nested operation, the slot was never
\* constructed and is never destructed, the outer receiver gets no signal and
\* the operation state is never handed to the caller.
C5_ConstructionFailure ==
  exc = "connect" =>
    /\ opPhase = "unwound"
    /\ startCalls = 0
    /\ nestedStartCalls = 0
    /\ sourceOp_ = "empty"
    /\ destructCalls = 0
    /\ outerLog = <<>>
    /\ srcSignals = <<>>

C5_Witness ==
  /\ exc = "connect"
  /\ opPhase = "unwound"
  /\ Len(inner) > 1

\* C6: a stop request raised on the outer receiver's side is never observable
\* to the source through a query on the inner receiver.
C6_StopRequestNotObservable == ~sourceSawStop

\* C7 as claimed: every call of the entry point selects exactly one of the
\* two paths, the customization when the source customizes and the wrapping
\* sender otherwise.
C7_ExactlyOnePath ==
  path # "none" =>
    /\ path \in {"tag_invoke", "wrap"}
    /\ path = "tag_invoke" <=> src.customizes
    /\ path = "wrap" <=> ~src.customizes

\* C7 amended: the customization is selected exactly when the source
\* customizes (and then no unstoppable_sender and no operation state exist),
\* the wrapping sender exactly when it does not customize and is
\* constructible, no path when it is neither; never both.
C7_PathSelection ==
  path # "none" =>
    /\ path \in {"tag_invoke", "wrap", "ill_formed"}
    /\ path = "tag_invoke" <=> src.customizes
    /\ path = "wrap" <=> (~src.customizes /\ src.constructible)
    /\ path = "ill_formed" <=> (~src.customizes /\ ~src.constructible)
    /\ path # "wrap" => sender_source_ = "none" /\ opPhase = "none"
    /\ path = "wrap" => sender_source_ # "none"

C7_Witness ==
  /\ path = "tag_invoke"
  /\ src.constructible
  /\ sender_source_ = "none"

\* C8: during the operation state's lifetime the liveness flag is set if and
\* only if the slot holds a constructed, not yet destructed nested operation.
C8_FlagIffSlotLive ==
  opPhase # "none" => (isSourceOpConstructed_ <=> sourceOp_ = "live")

\* C9: whenever the source signals cancellation, set_done returns normally:
\* no exception escapes and the program is not terminated.
C9_DoneRelayNeverFails ==
  SourceSignalled("done") => ~terminated /\ exc = "none"

\* C10: the caller's receiver is moved-from only when it was passed to
\* connect as an expiring value; an lvalue or const lvalue is left unchanged.
C10_ReceiverCategoryPreserved ==
  opPhase # "none" => (callerReceiver = "moved_from" <=> rcv.cat = "rvalue")


\* C11: a connect of a sender held by const reference leaves the sender
\* holding its source, a connect of an expiring sender moves the source out;
\* every operation state gets its own source, and each of the operation
\* states of successive connects that was started delivered exactly one
\* completion to its own receiver.
C11_SenderReuse ==
  /\ scat = "const_lvalue" => sender_source_ = "held"
  /\ scat = "rvalue" => sender_source_ = "moved_from"
  /\ opPhase \in {"members", "live"} => source_ = "held"
  /\ srcSignals # <<>> => Len(outerLog) = 1
  /\ \A i \in DOMAIN pastOps :
       /\ pastOps[i].scat = "const_lvalue"
       /\ pastOps[i].delivered <= 1
       /\ pastOps[i].started > 0 => pastOps[i].delivered = 1

C11_Witness ==
  /\ pastOps # <<>>
  /\ pastOps[1].delivered = 1
  /\ scat = "const_lvalue"
  /\ sender_source_ = "held"
  /\ Len(outerLog) = 1

\* C12: after any sequence of relocations every relocated-from instance of
\* the inner receiver has a null back-reference and at most one instance has
\* a non-null one.
C12_RelocationSafety ==
  /\ \A i \in DOMAIN inner : i < Len(inner) => ~inner[i]
  /\ Cardinality({i \in DOMAIN inner : inner[i]}) <= 1

C12_Witness ==
  /\ Len(inner) > 2
  /\ inner[Len(inner)]
  /\ outerLog # <<>>

\* C13: no signal reaches the outer receiver and the nested operation is not
\* started before the outer start() is called; every call of the outer
\* start() starts the nested operation exactly once and changes nothing else.
C13_Ordering ==
  /\ [](startCalls = 0 => outerLog = <<>> /\ srcSignals = <<>> /\ nestedStartCalls = 0)
  /\ [](nestedStartCalls = startCalls)
  /\ [][startCalls' > startCalls =>
          /\ startCalls' = startCalls + 1
          /\ nestedStartCalls' = nestedStartCalls + 1
          /\ UNCHANGED <<outerLog, srcSignals, opVars, inner, destructCalls,
                         callerReceiver, sender_source_>>]_vars

C13_Witness ==
  /\ startCalls = 1
  /\ startPc = "returned"
  /\ outerLog = <<>>
  /\ opPhase = "live"

\* C14: once an operation state was started, its outer receiver eventually
\* receives a completion signal, given that the source delivers the
\* completion it owes.
C14_CompletionLiveness ==
  \A k \in 0..MaxConnects :
    (Len(pastOps) = k /\ nestedStartCalls > 0)
      ~> (Len(pastOps) = k /\ outerLog # <<>>)

C14_Witness ==
  /\ nestedStartCalls > 0
  /\ startPc = "returned"
  /\ srcSignals # <<>>
  /\ srcSignals[1].ctx = "returned"
  /\ srcSignals[1].sig.ch = "done"
  /\ outerLog # <<>>

\* C15: the nested operation of a successfully constructed operation state is
\* destructed exactly once, by the destructor of the operation state, never
\* while the operation state is alive, and the liveness flag is cleared
\* afterwards.
C15_NestedDestruction ==
  /\ destructCalls <= 1
  /\ opPhase = "live" => sourceOp_ = "live" /\ destructCalls = 0
  /\ destructCalls > 0 => opPhase = "destroyed"
  /\ opPhase = "destroyed" =>
       /\ sourceOp_ = "destructed"
       /\ destructCalls = 1
       /\ ~isSourceOpConstructed_

C15_Witness ==
  /\ opPhase = "destroyed"
  /\ destructCalls = 1
  /\ srcSignals # <<>>
  /\ ~rcv.destroysOp

\* C16: whenever the source may complete, the success relay is offered, the
\* cancellation relay is offered exactly when the outer receiver has a
\* cancellation channel, and the error relay exactly when it has an error
\* channel; a cancellation so relayed is delivered as success.
C16_CapabilityGating ==
  /\ SourceMayComplete =>
       /\ ENABLED set_value
       /\ (ENABLED set_done) <=> rcv.hasDone
       /\ (ENABLED set_error) <=> rcv.hasError
  /\ SourceSignalled("done") => rcv.hasDone /\ Count(outerLog, "done") = 0
  /\ SourceSignalled("error") => rcv.hasError

C16_Witness ==
  /\ SourceSignalled("done")
  /\ rcv.hasDone
  /\ ~rcv.hasError
  /\ outerLog = <<ValueSignal>>

\* C17: every relay and every forwarded query runs with a non-null
\* back-reference to an operation state that is alive.
C17_BackReferenceValid ==
  faults \cap {"null_backref", "dead_on_entry"} = {}

C17_Witness ==
  /\ srcSignals # <<>>
  /\ Len(inner) > 1
  /\ sourceSawStop
  /\ faults = {}

\* C18: after a relay handed its signal to the outer receiver, neither the
\* relay nor start() touches the operation state, so an operation state its
\* outer receiver destroyed inside the completion handler is never read or
\* written again.
C18_NoAccessAfterRelay ==
  /\ []("dead_after_relay" \notin faults)
  /\ [][opPhase = "destroyed" /\ opPhase' = "destroyed" =>
          UNCHANGED <<source_, receiver_, isSourceOpConstructed_, sourceOp_,
                      destructCalls>>]_vars

C18_Witness ==
  /\ rcv.destroysOp
  /\ opPhase = "destroyed"
  /\ srcSignals # <<>>
  /\ srcSignals[1].ctx = "running"
  /\ startPc = "returned"

====
